---- MODULE Spec2Model ----
(***************************************************************************)
(* Model of the distribution core of statrs: Normal and LogNormal          *)
(* (src/src/distribution/normal.rs), the shared polar sampling routine and *)
(* the iterator statistics (src/src/statistics/iter_statistics.rs).        *)
(*                                                                         *)
(* f64 is modelled at reduced width.  A value is a record                  *)
(*     [k |-> "num", v |-> n]   the finite number n / Scale                *)
(*     [k |-> "inf", v |-> 1]   +infinity      (v = -1: -infinity)         *)
(*     [k |-> "nan", v |-> 0]   NaN                                        *)
(* Finite results are rounded to the nearest multiple of 1 / Scale and     *)
(* overflow to an infinity beyond MaxRaw / Scale, as f64 rounds to 53 bits *)
(* and overflows beyond f64::MAX.  Zero carries no sign: the only          *)
(* divisions of the code whose divisor can be zero are 0/0 and NaN/0.      *)
(***************************************************************************)
EXTENDS Integers, Sequences, FiniteSets, TLC

\* Resolution of the finite values: 1 / Scale.  A power of two, so that the
\* draws k/4 and everything polar_transform computes from them up to r are exact.
Scale == 4 * 16

\* Largest finite magnitude, in units of 1 / Scale (512.0).
MaxRaw == 512 * Scale

\* Resolution used inside ln, exp and erfc before the result is rounded.
Prec == 64 * Scale

(***************************************************************************)
(* f64 values and IEEE-754 arithmetic                                      *)
(***************************************************************************)
Fin(n) == [k |-> "num", v |-> n]

NaN == [k |-> "nan", v |-> 0]

PInf == [k |-> "inf", v |-> 1]

NInf == [k |-> "inf", v |-> -1]

Zero == Fin(0)

One == Fin(Scale)

Two == Fin(2 * Scale)

Half == Fin(Scale \div 2)

is_nan(x) == x.k = "nan"

IsInf(x) == x.k = "inf"

IsNum(x) == x.k = "num"

Sign(n) == IF n > 0 THEN 1 ELSE IF n < 0 THEN -1 ELSE 0

AbsInt(n) == IF n < 0 THEN -n ELSE n

\* n / d rounded to the nearest integer, halves away from zero (d > 0).
RoundDiv(n, d) == Sign(n) * ((AbsInt(n) + d \div 2) \div d)

\* A finite result, overflowing to an infinity.
Round(n) == IF n > MaxRaw THEN PInf ELSE IF n < -MaxRaw THEN NInf ELSE Fin(n)

InfOf(s) == IF s > 0 THEN PInf ELSE NInf

\* -x
Neg(x) == IF is_nan(x) THEN NaN ELSE [k |-> x.k, v |-> -x.v]

\* x + y
Add(x, y) ==
    IF is_nan(x) \/ is_nan(y) THEN NaN
    ELSE IF IsInf(x) /\ IsInf(y) THEN (IF x.v = y.v THEN x ELSE NaN)
    ELSE IF IsInf(x) THEN x
    ELSE IF IsInf(y) THEN y
    ELSE Round(x.v + y.v)

\* x - y
Sub(x, y) == Add(x, Neg(y))

\* x * y
Mul(x, y) ==
    IF is_nan(x) \/ is_nan(y) THEN NaN
    ELSE IF IsInf(x) \/ IsInf(y)
         THEN (IF x.v = 0 \/ y.v = 0 THEN NaN ELSE InfOf(Sign(x.v) * Sign(y.v)))
    ELSE Round(RoundDiv(x.v * y.v, Scale))

\* x / y
Div(x, y) ==
    IF is_nan(x) \/ is_nan(y) THEN NaN
    ELSE IF IsInf(x) /\ IsInf(y) THEN NaN
    ELSE IF IsInf(x) THEN InfOf(x.v * (IF y.v < 0 THEN -1 ELSE 1))
    ELSE IF IsInf(y) THEN Zero
    ELSE IF y.v = 0 THEN (IF x.v = 0 THEN NaN ELSE InfOf(x.v))
    ELSE Round(Sign(y.v) * RoundDiv(x.v * Scale, AbsInt(y.v)))

\* The position of a non-NaN value on the extended real line.
Ord(x) == IF IsInf(x) THEN x.v * (MaxRaw + 1) ELSE x.v

\* x < y, x <= y, x > y, x >= y, x == y: false as soon as one side is NaN.
Lt(x, y) == ~is_nan(x) /\ ~is_nan(y) /\ Ord(x) < Ord(y)

Le(x, y) == ~is_nan(x) /\ ~is_nan(y) /\ Ord(x) <= Ord(y)

Gt(x, y) == Lt(y, x)

Ge(x, y) == Le(y, x)

Eq(x, y) == ~is_nan(x) /\ ~is_nan(y) /\ Ord(x) = Ord(y)

\* f64::abs
Abs(x) == IF is_nan(x) THEN NaN ELSE [k |-> x.k, v |-> AbsInt(x.v)]

(***************************************************************************)
(* f64::sqrt, f64::ln, f64::exp and the erfc of functions::erf             *)
(***************************************************************************)
RECURSIVE ISqrtBin(_, _, _)
\* The largest r in lo..hi with r * r <= n (lo * lo <= n).
ISqrtBin(n, lo, hi) ==
    IF lo >= hi THEN lo
    ELSE LET mid == (lo + hi + 1) \div 2
         IN  IF mid * mid <= n THEN ISqrtBin(n, mid, hi) ELSE ISqrtBin(n, lo, mid - 1)

\* sqrt(n / Scale) in units of 1 / Scale, rounded to nearest (n >= 0).
SqrtRaw(n) ==
    LET m == n * Scale
        r == ISqrtBin(m, 0, 4 * Scale * 8)
    IN  IF (r + 1) * (r + 1) - m < m - r * r THEN r + 1 ELSE r

\* f64::sqrt
Sqrt(x) ==
    IF is_nan(x) THEN NaN
    ELSE IF IsInf(x) THEN (IF x.v > 0 THEN PInf ELSE NaN)
    ELSE IF x.v < 0 THEN NaN
    ELSE Fin(SqrtRaw(x.v))

\* ln 2 in units of 1 / Prec.
Ln2P == RoundDiv(69315 * Prec, 100000)

RECURSIVE LnReduce(_, _)
\* <<m, e>> with n / Scale = (m / Prec) * 2^e and Prec <= m < 2 * Prec, from
\* m = n * Prec / Scale scaled by 2^-e so far (n > 0).
LnReduce(m, e) ==
    IF m >= 2 * Prec THEN LnReduce(m \div 2, e + 1)
    ELSE IF m < Prec THEN LnReduce(m * 2, e - 1)
    ELSE <<m, e>>

\* ln(n / Scale) in units of 1 / Scale (n > 0): ln(m * 2^e) = e ln 2 + 2 atanh(z)
\* with z = (m - 1) / (m + 1), atanh by its series to z^7.
LnRaw(n) ==
    LET me == LnReduce(n * (Prec \div Scale), 0)
        m  == me[1]
        z  == ((m - Prec) * Prec) \div (m + Prec)
        z2 == (z * z) \div Prec
        z3 == (z2 * z) \div Prec
        z5 == (z3 * z2) \div Prec
        z7 == (z5 * z2) \div Prec
        at == z + z3 \div 3 + z5 \div 5 + z7 \div 7
    IN  RoundDiv((me[2] * Ln2P + 2 * at) * Scale, Prec)

\* f64::ln
Ln(x) ==
    IF is_nan(x) THEN NaN
    ELSE IF IsInf(x) THEN (IF x.v > 0 THEN PInf ELSE NaN)
    ELSE IF x.v < 0 THEN NaN
    ELSE IF x.v = 0 THEN NInf
    ELSE Fin(LnRaw(x.v))

RECURSIVE ExpSeries(_, _, _)
\* Horner's scheme for 1 + f + f^2/2! + ... + f^7/7!, in units of 1 / Prec.
ExpSeries(f, i, t) ==
    IF i = 0 THEN t ELSE ExpSeries(f, i - 1, Prec + (f * t) \div (i * Prec))

RECURSIVE Pow2(_)
Pow2(e) == IF e = 0 THEN 1 ELSE 2 * Pow2(e - 1)

\* exp(n / Scale): a finite value, 0 on underflow, +infinity on overflow.
\* n / Scale = e ln 2 + f with 0 <= f < ln 2, exp = 2^e * exp(f).
ExpRaw(n) ==
    LET xP == n * (Prec \div Scale)
        e  == xP \div Ln2P
        f  == xP - e * Ln2P
        t  == ExpSeries(f, 7, Prec)
    IN  IF e > 9 THEN PInf
        ELSE IF e < -16 THEN Zero
        ELSE IF e >= 0 THEN Round(RoundDiv(t * Pow2(e), Prec \div Scale))
        ELSE Fin(RoundDiv(t, (Prec \div Scale) * Pow2(-e)))

\* f64::exp
Exp(x) ==
    IF is_nan(x) THEN NaN
    ELSE IF IsInf(x) THEN (IF x.v > 0 THEN PInf ELSE Zero)
    ELSE ExpRaw(x.v)

\* erfc(n / Scale) for 0 <= n < 3 * Scale, in units of 1 / Scale:
\* 1 / (1 + a1 x + a2 x^2 + a3 x^3 + a4 x^4)^4.
ErfcPos(n) ==
    LET x   == n * (Prec \div Scale)
        x2  == (x * x) \div Prec
        x3  == (x2 * x) \div Prec
        x4  == (x2 * x2) \div Prec
        den == Prec + (RoundDiv(27839 * Prec, 100000) * x) \div Prec
                    + (RoundDiv(23039 * Prec, 100000) * x2) \div Prec
                    + (RoundDiv(97 * Prec, 100000) * x3) \div Prec
                    + (RoundDiv(7811 * Prec, 100000) * x4) \div Prec
        q   == (Prec * Prec) \div den
        q2  == (q * q) \div Prec
        q4  == (q2 * q2) \div Prec
    IN  RoundDiv(q4, Prec \div Scale)

\* The complementary error function over all reals and the infinities.
erfc(x) ==
    IF is_nan(x) THEN NaN
    ELSE IF IsInf(x) THEN (IF x.v > 0 THEN Zero ELSE Two)
    ELSE IF x.v >= 3 * Scale THEN Zero
    ELSE IF x.v <= -3 * Scale THEN Two
    ELSE IF x.v >= 0 THEN Fin(ErfcPos(x.v))
    ELSE Fin(2 * Scale - ErfcPos(-x.v))

(***************************************************************************)
(* Constants of the consts module and of std::f64::consts                  *)
(***************************************************************************)
\* consts::SQRT_2PI = sqrt(2 pi) = 2.5066...
SQRT_2PI == Fin(RoundDiv(25066 * Scale, 10000))

\* consts::LN_SQRT_2PI = ln(sqrt(2 pi)) = 0.9189...
LN_SQRT_2PI == Fin(RoundDiv(9189 * Scale, 10000))

\* consts::LN_SQRT_2PIE = ln(sqrt(2 pi e)) = 1.4189...
LN_SQRT_2PIE == Fin(RoundDiv(14189 * Scale, 10000))

\* f64::consts::SQRT_2 = 1.4142...
SQRT_2 == Fin(RoundDiv(14142 * Scale, 10000))

(***************************************************************************)
(* Results: result::Result<T>, Option<f64> and plain f64                   *)
(***************************************************************************)
Ok(v) == [tag |-> "Ok", val |-> v]

Err(e) == [tag |-> "Err", err |-> e]

Some(v) == [tag |-> "Some", val |-> v]

F64(v) == [tag |-> "f64", val |-> v]

None == [tag |-> "None"]

BadParams == "BadParams"

(***************************************************************************)
(* Normal                                                                  *)
(***************************************************************************)
\* Normal::new with std_dev < 0.0 in place of std_dev <= 0.0.
Normal_new_lt(mean, std_dev) ==
    IF is_nan(mean) \/ is_nan(std_dev) \/ Lt(std_dev, Zero)
    THEN Err(BadParams)
    ELSE Ok([mu |-> mean, sigma |-> std_dev])

\* Normal::new
Normal_new(mean, std_dev) ==
    IF is_nan(mean) \/ is_nan(std_dev) \/ Le(std_dev, Zero)
    THEN Err(BadParams)
    ELSE Ok([mu |-> mean, sigma |-> std_dev])

Normal_mean(self) == self.mu

Normal_variance(self) == Mul(self.sigma, self.sigma)

\* std_dev returning the variance.
Normal_std_dev_var(self) == Mul(self.sigma, self.sigma)

Normal_std_dev(self) == self.sigma

Normal_entropy(self) == Add(Ln(self.sigma), LN_SQRT_2PIE)

Normal_skewness(self) == Zero

Normal_median(self) == Some(self.mu)

\* cdf failing on a NaN argument.
Normal_cdf_err(self, x) ==
    IF is_nan(x)
    THEN Err(BadParams)
    ELSE Ok(Mul(Half, erfc(Div(Sub(self.mu, x), Mul(self.sigma, SQRT_2)))))

Normal_cdf(self, x) ==
    Ok(Mul(Half, erfc(Div(Sub(self.mu, x), Mul(self.sigma, SQRT_2)))))

Normal_mode(self) == self.mu

Normal_min(self) == NInf

Normal_max(self) == PInf

\* pdf treating an infinite sigma as an invalid parameter.
Normal_pdf_finite(self, x) ==
    IF IsInf(self.sigma)
    THEN NaN
    ELSE LET d == Div(Sub(x, self.mu), self.sigma)
         IN  Div(Exp(Mul(Mul(Neg(Half), d), d)), Mul(SQRT_2PI, self.sigma))

Normal_pdf(self, x) ==
    LET d == Div(Sub(x, self.mu), self.sigma)
    IN  Div(Exp(Mul(Mul(Neg(Half), d), d)), Mul(SQRT_2PI, self.sigma))

Normal_ln_pdf(self, x) ==
    LET d == Div(Sub(x, self.mu), self.sigma)
    IN  Sub(Sub(Mul(Mul(Neg(Half), d), d), LN_SQRT_2PI), Ln(self.sigma))

(***************************************************************************)
(* LogNormal                                                               *)
(***************************************************************************)
\* LogNormal::new without std_dev.is_nan(): NaN <= 0.0 is false.
LogNormal_new_ord(mean, std_dev) ==
    IF is_nan(mean) \/ Le(std_dev, Zero)
    THEN Err(BadParams)
    ELSE Ok([mu |-> mean, sigma |-> std_dev])

\* LogNormal::new
LogNormal_new(mean, std_dev) ==
    IF is_nan(mean) \/ is_nan(std_dev) \/ Le(std_dev, Zero)
    THEN Err(BadParams)
    ELSE Ok([mu |-> mean, sigma |-> std_dev])

LogNormal_mean(self) ==
    Exp(Add(self.mu, Div(Mul(self.sigma, self.sigma), Two)))

LogNormal_variance(self) ==
    LET sigma2 == Mul(self.sigma, self.sigma)
    IN  Mul(Sub(Exp(sigma2), One), Exp(Add(Add(self.mu, self.mu), sigma2)))

LogNormal_std_dev(self) == Sqrt(LogNormal_variance(self))

LogNormal_entropy(self) ==
    Add(Add(Add(Half, Ln(self.sigma)), self.mu), LN_SQRT_2PI)

LogNormal_skewness(self) ==
    LET expsigma2 == Exp(Mul(self.sigma, self.sigma))
    IN  Mul(Add(expsigma2, Two), Sqrt(Sub(expsigma2, One)))

LogNormal_median(self) == Some(Exp(self.mu))

\* cdf without its branch for x < 0.0.
LogNormal_cdf_nobranch(self, x) ==
    Ok(Mul(Half, erfc(Div(Sub(self.mu, Ln(x)), Mul(self.sigma, SQRT_2)))))

LogNormal_cdf(self, x) ==
    IF Lt(x, Zero)
    THEN Ok(Zero)
    ELSE Ok(Mul(Half, erfc(Div(Sub(self.mu, Ln(x)), Mul(self.sigma, SQRT_2)))))

LogNormal_mode(self) == Exp(Sub(self.mu, Mul(self.sigma, self.sigma)))

LogNormal_min(self) == Zero

LogNormal_max(self) == PInf

LogNormal_pdf(self, x) ==
    IF Lt(x, Zero)
    THEN Zero
    ELSE LET d == Div(Sub(Ln(x), self.mu), self.sigma)
         IN  Div(Exp(Mul(Mul(Neg(Half), d), d)), Mul(Mul(x, SQRT_2PI), self.sigma))

LogNormal_ln_pdf(self, x) ==
    IF Lt(x, Zero)
    THEN NInf
    ELSE LET d == Div(Sub(Ln(x), self.mu), self.sigma)
         IN  Sub(Sub(Mul(Mul(Neg(Half), d), d), LN_SQRT_2PI), Ln(Mul(x, self.sigma)))

(***************************************************************************)
(* The shared sampling routine                                             *)
(***************************************************************************)
\* The locals v1 and v2 of polar_transform.
polar_v(a) == Sub(Mul(Two, a), One)

\* The local r of polar_transform: the acceptance radius.
polar_r(a, b) ==
    LET v1 == polar_v(a)
        v2 == polar_v(b)
    IN  Add(Mul(v1, v2), Mul(v2, v2))

\* The rejection test of polar_transform on its local r.
polar_reject(r) == Ge(r, One) \/ Eq(r, Zero)

\* polar_transform: <<first deviate, second deviate, accepted>>
polar_transform(a, b) ==
    LET v1 == polar_v(a)
        v2 == polar_v(b)
        r  == polar_r(a, b)
    IN  IF polar_reject(r)
        THEN <<Zero, Zero, FALSE>>
        ELSE LET fac == Sqrt(Div(Mul(Neg(Two), Ln(r)), r))
             IN  <<Mul(v1, fac), Mul(v2, fac), TRUE>>

\* sample_unchecked returning the second deviate of the tuple.
sample_value_second(mean, std_dev, tuple) == Add(mean, Mul(std_dev, tuple[2]))

\* The value sample_unchecked returns from the accepted tuple.
sample_value(mean, std_dev, tuple) == Add(mean, Mul(std_dev, tuple[1]))

(***************************************************************************)
(* Iterator statistics                                                     *)
(***************************************************************************)
\* Iterator::next on an iterator over a slice, given by the entries it has
\* left: <<the item, the iterator afterwards>>
next(it) == IF it = <<>> THEN <<None, it>> ELSE <<Some(Head(it)), Tail(it)>>

\* The closure of abs_min's fold without x.is_nan().
abs_min_step_ord(acc, x) == IF Lt(x, acc) THEN x ELSE acc

\* The closure abs_min folds with: |acc, x| if x < acc || x.is_nan() { x } else { acc }
abs_min_step(acc, x) == IF Lt(x, acc) \/ is_nan(x) THEN x ELSE acc

\* The closure abs_max folds with: |acc, x| if x > acc || x.is_nan() { x } else { acc }
abs_max_step(acc, x) == IF Gt(x, acc) \/ is_nan(x) THEN x ELSE acc

RECURSIVE fold_abs_min(_, _)
\* self.map(|x| x.borrow().abs()).fold(acc, ...) of abs_min, which calls next
\* until it returns None: <<the result, the iterator afterwards>>
fold_abs_min(it, acc) ==
    LET n == next(it)
    IN  IF n[1].tag = "None"
        THEN <<acc, n[2]>>
        ELSE fold_abs_min(n[2], abs_min_step(acc, Abs(n[1].val)))

RECURSIVE fold_abs_max(_, _)
\* The same of abs_max.
fold_abs_max(it, acc) ==
    LET n == next(it)
    IN  IF n[1].tag = "None"
        THEN <<acc, n[2]>>
        ELSE fold_abs_max(n[2], abs_max_step(acc, Abs(n[1].val)))

\* abs_min folding over a clone of the iterator.
abs_min_cloned(it) ==
    LET n == next(it)
    IN  IF n[1].tag = "None"
        THEN <<NaN, it>>
        ELSE <<fold_abs_min(n[2], Abs(n[1].val))[1], it>>

\* abs_min(&mut self): <<the result, the iterator afterwards>>
abs_min(it) ==
    LET n == next(it)
    IN  IF n[1].tag = "None"
        THEN <<NaN, n[2]>>
        ELSE fold_abs_min(n[2], Abs(n[1].val))

\* abs_max(&mut self): <<the result, the iterator afterwards>>
abs_max(it) ==
    LET n == next(it)
    IN  IF n[1].tag = "None"
        THEN <<NaN, n[2]>>
        ELSE fold_abs_max(n[2], Abs(n[1].val))

(***************************************************************************)
(* Bounds and inputs                                                       *)
(***************************************************************************)
\* Pairs of draws a seeded source yields: the length of the tape, in pairs.
MaxPairs == 2

Cap == 2 * MaxPairs

\* Arguments of the constructors.
Means == {NaN, NInf, Fin(-Scale), One, PInf}

StdDevs == {NaN, NInf, Fin(-Scale), Zero, Half, PInf}

\* Arguments of cdf, pdf and ln_pdf.
Xs == {NaN, NInf, Fin(-Scale), Zero, One, PInf}

\* Values of next_f64, in [0, 1): 0, 1/4, 1/2, 3/4.
Uniform == {Fin((i * Scale) \div 4) : i \in 0..3}

\* Values of next_f64 where the draws of several sources are followed: 0.5 and
\* 0.75.  Of the four pairs two are rejected (r = 0) and two are accepted.
Draws == {Half, Fin((3 * Scale) \div 4)}

Dists == {"Normal", "LogNormal"}

\* Longest vector an iterator is taken over.
MaxLen == 3

\* Entries of the vectors.
Entries == {NaN, NInf, Fin(-2 * Scale), Zero, One}

\* The vectors of at most MaxLen entries.
Vectors == UNION {[1..n -> Entries] : n \in 0..MaxLen}

\* The methods of Univariate and Continuous without and with an argument.
Nullary == {"mean", "variance", "std_dev", "entropy", "skewness", "median",
            "mode", "min", "max"}

Unary == {"cdf", "pdf", "ln_pdf"}

(***************************************************************************)
(* State                                                                   *)
(***************************************************************************)
VARIABLES
    normal,     \* the Normal the caller holds (None before Normal::new succeeds)
    lognormal,  \* the LogNormal the caller holds
    given,      \* per distribution, the arguments its constructor succeeded with
    tape,       \* the values the seed generates, as far as they have been drawn
    rng,        \* per distribution, its source: the values drawn from the seed's
                \* sequence so far, or Off for a source whose sequence is not followed
    call,       \* the sample call in progress
    samples,    \* per distribution, the sample calls on the seeded source, in order
    ret,        \* the operation that returned last and its value (none while a
                \* sample call is running)
    src,        \* per thread, the values its own source has yielded so far
    tcall,      \* per thread, its sample call in progress
    tret,       \* per thread, the operation of it that returned last
    data,       \* the vector the iterator was taken over
    iter,       \* the entries the iterator has left
    iret        \* the iterator operation that returned last and its value

threadvars == <<src, tcall, tret>>

itervars == <<data, iter, iret>>

distvars == <<normal, lognormal, given, tape, rng, call, samples, ret>>

vars == <<normal, lognormal, given, tape, rng, call, samples, ret,
          src, tcall, tret, data, iter, iret>>

Idle == [who |-> "none"]

Off == Cap + 1

\* No thread has been started.
NoThreads ==
    /\ src = <<>>
    /\ tcall = <<>>
    /\ tret = <<>>

\* No iterator has been taken.
NoIterator ==
    /\ data = <<>>
    /\ iter = <<>>
    /\ iret = [op |-> "none"]

\* Nothing constructed yet; each distribution samples from a source of its own.
Init ==
    /\ normal = None
    /\ lognormal = None
    /\ given = [d \in Dists |-> None]
    /\ tape = <<>>
    /\ rng = [d \in Dists |-> Off]
    /\ call = Idle
    /\ samples = [d \in Dists |-> <<>>]
    /\ ret = [op |-> "none"]
    /\ NoThreads
    /\ NoIterator

(***************************************************************************)
(* Construction                                                            *)
(***************************************************************************)
NewNormal ==
    /\ call = Idle
    /\ normal = None
    /\ \E mean \in Means, std_dev \in StdDevs :
          LET n == Normal_new(mean, std_dev)
          IN  /\ normal' = IF n.tag = "Ok" THEN n.val ELSE None
              /\ given' = IF n.tag = "Ok"
                          THEN [given EXCEPT !["Normal"] = [mean |-> mean, std_dev |-> std_dev]]
                          ELSE given
              /\ ret' = [op |-> "new", who |-> "Normal", mean |-> mean,
                         std_dev |-> std_dev, val |-> n]
    /\ UNCHANGED <<lognormal, tape, rng, call, samples>>
    /\ UNCHANGED <<threadvars, itervars>>

NewLogNormal ==
    /\ call = Idle
    /\ lognormal = None
    /\ \E mean \in Means, std_dev \in StdDevs :
          LET n == LogNormal_new(mean, std_dev)
          IN  /\ lognormal' = IF n.tag = "Ok" THEN n.val ELSE None
              /\ given' = IF n.tag = "Ok"
                          THEN [given EXCEPT !["LogNormal"] = [mean |-> mean, std_dev |-> std_dev]]
                          ELSE given
              /\ ret' = [op |-> "new", who |-> "LogNormal", mean |-> mean,
                         std_dev |-> std_dev, val |-> n]
    /\ UNCHANGED <<normal, tape, rng, call, samples>>
    /\ UNCHANGED <<threadvars, itervars>>

(***************************************************************************)
(* Statistics and densities                                                *)
(***************************************************************************)
\* impl Univariate for Normal, impl Continuous for Normal
Normal_call(self, op, x) ==
    CASE op = "mean"     -> F64(Normal_mean(self))
      [] op = "variance" -> F64(Normal_variance(self))
      [] op = "std_dev"  -> F64(Normal_std_dev(self))
      [] op = "entropy"  -> F64(Normal_entropy(self))
      [] op = "skewness" -> F64(Normal_skewness(self))
      [] op = "median"   -> Normal_median(self)
      [] op = "mode"     -> F64(Normal_mode(self))
      [] op = "min"      -> F64(Normal_min(self))
      [] op = "max"      -> F64(Normal_max(self))
      [] op = "cdf"      -> Normal_cdf(self, x)
      [] op = "pdf"      -> F64(Normal_pdf(self, x))
      [] op = "ln_pdf"   -> F64(Normal_ln_pdf(self, x))

\* impl Univariate for LogNormal, impl Continuous for LogNormal
LogNormal_call(self, op, x) ==
    CASE op = "mean"     -> F64(LogNormal_mean(self))
      [] op = "variance" -> F64(LogNormal_variance(self))
      [] op = "std_dev"  -> F64(LogNormal_std_dev(self))
      [] op = "entropy"  -> F64(LogNormal_entropy(self))
      [] op = "skewness" -> F64(LogNormal_skewness(self))
      [] op = "median"   -> LogNormal_median(self)
      [] op = "mode"     -> F64(LogNormal_mode(self))
      [] op = "min"      -> F64(LogNormal_min(self))
      [] op = "max"      -> F64(LogNormal_max(self))
      [] op = "cdf"      -> LogNormal_cdf(self, x)
      [] op = "pdf"      -> F64(LogNormal_pdf(self, x))
      [] op = "ln_pdf"   -> F64(LogNormal_ln_pdf(self, x))

\* A method of Univariate or Continuous is called on the Normal and returns.
CallNormal ==
    /\ call = Idle
    /\ normal # None
    /\ \/ \E op \in Nullary :
             ret' = [op |-> op, who |-> "Normal", val |-> Normal_call(normal, op, NaN)]
       \/ \E op \in Unary, x \in Xs :
             ret' = [op |-> op, who |-> "Normal", x |-> x, val |-> Normal_call(normal, op, x)]
    /\ UNCHANGED <<normal, lognormal, given, tape, rng, call, samples>>
    /\ UNCHANGED <<threadvars, itervars>>

\* A method of Univariate or Continuous is called on the LogNormal and returns.
CallLogNormal ==
    /\ call = Idle
    /\ lognormal # None
    /\ \/ \E op \in Nullary :
             ret' = [op |-> op, who |-> "LogNormal", val |-> LogNormal_call(lognormal, op, NaN)]
       \/ \E op \in Unary, x \in Xs :
             ret' = [op |-> op, who |-> "LogNormal", x |-> x,
                     val |-> LogNormal_call(lognormal, op, x)]
    /\ UNCHANGED <<normal, lognormal, given, tape, rng, call, samples>>
    /\ UNCHANGED <<threadvars, itervars>>

(***************************************************************************)
(* Sampling                                                                *)
(***************************************************************************)
Self(d) == IF d = "Normal" THEN normal ELSE lognormal

\* Normal::sample and LogNormal::sample enter sample_unchecked(r, mu, sigma).
SampleCall(d) ==
    /\ call = Idle
    /\ Self(d) # None
    /\ call' = [who |-> d, pc |-> "start", mean |-> Self(d).mu, std_dev |-> Self(d).sigma,
                from |-> rng[d], pairs |-> 0]
    /\ ret' = [op |-> "none"]
    /\ UNCHANGED <<normal, lognormal, given, tape, rng, samples>>
    /\ UNCHANGED <<threadvars, itervars>>

\* r.next_f64() at position p yields u: the value the seed generated there if it
\* has been drawn before, any value of [0, 1) if not.
Yields(tp, p, u) == u \in Uniform /\ (p < Len(tp) => u = tp[p + 1])

\* The tape once the source at position p has yielded u.
Reveal(tp, p, u) == IF p = Len(tp) THEN Append(tp, u) ELSE tp

\* A source that yields a value without moving on.
Advance_stay(p) == p

Advance(p) == IF p = Off THEN Off ELSE p + 1

\* The loop giving up after the first pair.
loop_continues_never(tuple) == FALSE

\* The loop running while the tuple is accepted.
loop_continues_flipped(tuple) == tuple[3]

\* The condition of the loop of sample_unchecked: while !tuple.2
loop_continues(tuple) == ~tuple[3]

Min(m, n) == IF m < n THEN m ELSE n

\* polar_transform(r.next_f64(), r.next_f64()): the first statement of
\* sample_unchecked, and the body of its loop while the tuple is rejected.
\* pairs counts the pairs the call has drawn, up to MaxPairs.
DrawPair ==
    /\ call # Idle
    /\ call.pc = "start" \/ (call.pc = "loop" /\ loop_continues(call.tuple))
    /\ rng[call.who] = Off \/ rng[call.who] + 2 <= Cap
    /\ \E a, b \in Uniform :
          LET p  == rng[call.who]
              t1 == Reveal(tape, p, a)
              p1 == Advance(p)
          IN  /\ Yields(tape, p, a)
              /\ Yields(t1, p1, b)
              /\ tape' = Reveal(t1, p1, b)
              /\ rng' = [rng EXCEPT ![call.who] = Advance(p1)]
              /\ call' = [who |-> call.who, pc |-> "loop", mean |-> call.mean,
                          std_dev |-> call.std_dev, from |-> call.from,
                          pairs |-> Min(call.pairs + 1, MaxPairs),
                          a |-> a, b |-> b, r |-> polar_r(a, b),
                          tuple |-> polar_transform(a, b)]
    /\ UNCHANGED <<normal, lognormal, given, samples, ret>>
    /\ UNCHANGED <<threadvars, itervars>>

\* LogNormal::sample without its .exp().
sample_result_noexp(d, v) == v

\* What the sample method of distribution d makes of sample_unchecked's value.
sample_result(d, v) == IF d = "Normal" THEN v ELSE Exp(v)

\* sample keeping the value it returns in the mu of the distribution.
SampleReturn_keep ==
    /\ call # Idle
    /\ call.pc = "loop"
    /\ ~loop_continues(call.tuple)
    /\ LET v == sample_result(call.who, sample_value(call.mean, call.std_dev, call.tuple))
       IN  /\ ret' = [op |-> "sample", who |-> call.who, pairs |-> call.pairs, val |-> F64(v)]
           /\ samples' = IF rng[call.who] = Off THEN samples
                         ELSE [samples EXCEPT ![call.who] =
                                  Append(@, [val |-> v, from |-> call.from,
                                             to |-> rng[call.who], pairs |-> call.pairs])]
           /\ normal' = IF call.who = "Normal" THEN [normal EXCEPT !.mu = v] ELSE normal
           /\ lognormal' = IF call.who = "LogNormal" THEN [lognormal EXCEPT !.mu = v]
                           ELSE lognormal
    /\ call' = Idle
    /\ UNCHANGED <<given, tape, rng>>
    /\ UNCHANGED <<threadvars, itervars>>

\* The loop of sample_unchecked ends and sample returns.
SampleReturn ==
    /\ call # Idle
    /\ call.pc = "loop"
    /\ ~loop_continues(call.tuple)
    /\ LET v == sample_result(call.who, sample_value(call.mean, call.std_dev, call.tuple))
       IN  /\ ret' = [op |-> "sample", who |-> call.who, pairs |-> call.pairs, val |-> F64(v)]
           /\ samples' = IF rng[call.who] = Off THEN samples
                         ELSE [samples EXCEPT ![call.who] =
                                  Append(@, [val |-> v, from |-> call.from,
                                             to |-> rng[call.who], pairs |-> call.pairs])]
    /\ call' = Idle
    /\ UNCHANGED <<normal, lognormal, given, tape, rng>>
    /\ UNCHANGED <<threadvars, itervars>>

Next ==
    \/ NewNormal
    \/ NewLogNormal
    \/ CallNormal
    \/ CallLogNormal
    \/ \E d \in Dists : SampleCall(d)
    \/ DrawPair
    \/ SampleReturn

Spec == Init /\ [][Next]_vars

\* The thread that runs a sample call keeps running it: once the loop of
\* sample_unchecked has ended, the return is eventually executed.
LiveSpec == Spec /\ WF_vars(SampleReturn)

(***************************************************************************)
(* Two sources with one seed                                               *)
(***************************************************************************)
\* A Normal and a LogNormal constructed from the same arguments; the source of
\* each is seeded with the same seed, so that both yield the sequence on the tape.
SeedInit ==
    /\ \E mean \in Means, std_dev \in StdDevs :
          /\ Normal_new(mean, std_dev).tag = "Ok"
          /\ LogNormal_new(mean, std_dev).tag = "Ok"
          /\ normal = Normal_new(mean, std_dev).val
          /\ lognormal = LogNormal_new(mean, std_dev).val
          /\ given = [d \in Dists |-> [mean |-> mean, std_dev |-> std_dev]]
    /\ tape = <<>>
    /\ rng = [d \in Dists |-> 0]
    /\ call = Idle
    /\ samples = [d \in Dists |-> <<>>]
    /\ ret = [op |-> "none"]
    /\ NoThreads
    /\ NoIterator

SeedNext ==
    \/ \E d \in Dists : SampleCall(d)
    \/ DrawPair
    \/ SampleReturn

SeedSpec == SeedInit /\ [][SeedNext]_vars

(***************************************************************************)
(* One caller, sources whose state is followed                             *)
(***************************************************************************)
\* A Normal and a LogNormal have been constructed; the caller holds a seeded
\* source for each and calls sample, the statistics and the densities.  The
\* tape holds the Cap values the seed generates.
FrameInit ==
    /\ \E mean \in {One}, std_dev \in {Half, PInf} :
          /\ normal = Normal_new(mean, std_dev).val
          /\ lognormal = LogNormal_new(mean, std_dev).val
          /\ given = [d \in Dists |-> [mean |-> mean, std_dev |-> std_dev]]
    /\ tape \in [1..Cap -> Draws]
    /\ rng = [d \in Dists |-> 0]
    /\ call = Idle
    /\ samples = [d \in Dists |-> <<>>]
    /\ ret = [op |-> "none"]
    /\ NoThreads
    /\ NoIterator

FrameNext ==
    \/ CallNormal
    \/ CallLogNormal
    \/ \E d \in Dists : SampleCall(d)
    \/ DrawPair
    \/ SampleReturn

FrameSpec == FrameInit /\ [][FrameNext]_vars

(***************************************************************************)
(* Threads sharing the distributions                                       *)
(***************************************************************************)
Threads == {"t1", "t2"}

\* Every thread passing the source of thread t1.
source_shared(t) == "t1"

\* The source thread t passes to sample: r: &mut R, a source of its own.
source_of(t) == t

RECURSIVE sample_unchecked(_, _, _)
\* sample_unchecked run from its first to its last statement on a source that
\* yields the values q: the value returned and the number of values drawn, or
\* None when q ends before a pair is accepted.
sample_unchecked(q, mean, std_dev) ==
    IF Len(q) < 2
    THEN None
    ELSE LET tuple == polar_transform(q[1], q[2])
         IN  IF loop_continues(tuple)
             THEN LET rest == sample_unchecked(SubSeq(q, 3, Len(q)), mean, std_dev)
                  IN  IF rest.tag = "None"
                      THEN None
                      ELSE Some([v |-> rest.val.v, drawn |-> rest.val.drawn + 2])
             ELSE Some([v |-> sample_value(mean, std_dev, tuple), drawn |-> 2])

TIdle == [pc |-> "idle"]

\* A Normal and a LogNormal, constructed before the threads start and shared
\* by them; the source of each thread has not been drawn from.
ThreadInit ==
    /\ \E mean \in {Fin(-Scale), One}, std_dev \in {Half} :
          /\ normal = Normal_new(mean, std_dev).val
          /\ lognormal = LogNormal_new(mean, std_dev).val
          /\ given = [d \in Dists |-> [mean |-> mean, std_dev |-> std_dev]]
    /\ tape = <<>>
    /\ rng = [d \in Dists |-> Off]
    /\ call = Idle
    /\ samples = [d \in Dists |-> <<>>]
    /\ ret = [op |-> "none"]
    /\ src = [t \in Threads |-> <<>>]
    /\ tcall = [t \in Threads |-> TIdle]
    /\ tret = [t \in Threads |-> [op |-> "none"]]
    /\ NoIterator

\* Thread t calls sample on distribution d, which enters sample_unchecked.
ThreadSampleCall(t, d) ==
    /\ tcall[t] = TIdle
    /\ tcall' = [tcall EXCEPT ![t] = [pc |-> "start", who |-> d, mean |-> Self(d).mu,
                                      std_dev |-> Self(d).sigma,
                                      from |-> Len(src[source_of(t)])]]
    /\ tret' = [tret EXCEPT ![t] = [op |-> "none"]]
    /\ UNCHANGED <<src, distvars, itervars>>

\* Thread t executes polar_transform(r.next_f64(), r.next_f64()) on its source.
\* A source yields at most Cap values.
ThreadDrawPair(t) ==
    /\ tcall[t].pc = "start" \/ (tcall[t].pc = "loop" /\ loop_continues(tcall[t].tuple))
    /\ Len(src[source_of(t)]) + 2 <= Cap
    /\ \E a, b \in Draws :
          /\ src' = [src EXCEPT ![source_of(t)] = Append(Append(@, a), b)]
          /\ tcall' = [tcall EXCEPT ![t] = [pc |-> "loop", who |-> @.who, mean |-> @.mean,
                                            std_dev |-> @.std_dev, from |-> @.from,
                                            tuple |-> polar_transform(a, b)]]
    /\ UNCHANGED <<tret, distvars, itervars>>

\* The loop of thread t's sample_unchecked ends and its sample returns.
ThreadSampleReturn(t) ==
    /\ tcall[t].pc = "loop"
    /\ ~loop_continues(tcall[t].tuple)
    /\ tret' = [tret EXCEPT ![t] =
                  [op |-> "sample", who |-> tcall[t].who, from |-> tcall[t].from,
                   to |-> Len(src[source_of(t)]),
                   val |-> sample_result(tcall[t].who,
                              sample_value(tcall[t].mean, tcall[t].std_dev, tcall[t].tuple))]]
    /\ tcall' = [tcall EXCEPT ![t] = TIdle]
    /\ UNCHANGED <<src, distvars, itervars>>

ThreadNext ==
    \/ \E t \in Threads, d \in Dists : ThreadSampleCall(t, d)
    \/ \E t \in Threads : ThreadDrawPair(t)
    \/ \E t \in Threads : ThreadSampleReturn(t)

ThreadSpec == ThreadInit /\ [][ThreadNext]_vars

(***************************************************************************)
(* An iterator over a vector                                               *)
(***************************************************************************)
\* v.iter() for a vector v; no distribution is involved.
IterInit ==
    /\ data \in Vectors
    /\ iter = data
    /\ iret = [op |-> "none", taken |-> 0, calls |-> 0]
    /\ normal = None
    /\ lognormal = None
    /\ given = [d \in Dists |-> None]
    /\ tape = <<>>
    /\ rng = [d \in Dists |-> Off]
    /\ call = Idle
    /\ samples = [d \in Dists |-> <<>>]
    /\ ret = [op |-> "none"]
    /\ NoThreads

\* The caller takes an entry with next(), which leaves the iterator partly
\* consumed.  taken counts the entries taken this way.
IterNext ==
    /\ iter # <<>>
    /\ iter' = next(iter)[2]
    /\ iret' = [op |-> "next", taken |-> iret.taken + 1, calls |-> iret.calls,
                val |-> next(iter)[1]]
    /\ UNCHANGED <<data, distvars, threadvars>>

\* iter.abs_min() is called and returns.  seen is what the iterator had left
\* when it was called; calls counts the calls of abs_min and abs_max, up to 2.
AbsMin ==
    /\ iter' = abs_min(iter)[2]
    /\ iret' = [op |-> "abs_min", taken |-> iret.taken, calls |-> Min(iret.calls + 1, 2),
                seen |-> iter, val |-> abs_min(iter)[1]]
    /\ UNCHANGED <<data, distvars, threadvars>>

\* iter.abs_max() is called and returns.
AbsMax ==
    /\ iter' = abs_max(iter)[2]
    /\ iret' = [op |-> "abs_max", taken |-> iret.taken, calls |-> Min(iret.calls + 1, 2),
                seen |-> iter, val |-> abs_max(iter)[1]]
    /\ UNCHANGED <<data, distvars, threadvars>>

IterNextStep ==
    \/ IterNext
    \/ AbsMin
    \/ AbsMax

IterSpec == IterInit /\ [][IterNextStep]_vars

(***************************************************************************)
(* Properties                                                              *)
(***************************************************************************)
\* v is a number or an infinity strictly above 0, at or above 0, strictly below 0.
Positive(v) == v = PInf \/ (v.k = "num" /\ v.v > 0)

NonNegative(v) == v = PInf \/ (v.k = "num" /\ v.v >= 0)

Negative(v) == v = NInf \/ (v.k = "num" /\ v.v < 0)

\* mean is NaN, std_dev is NaN, or std_dev <= 0.
BadArgs(mean, std_dev) == mean = NaN \/ std_dev = NaN \/ ~Positive(std_dev)

\* C1: Normal::new and LogNormal::new return Err(BadParams) exactly when mean
\* is NaN, std_dev is NaN or std_dev <= 0, and Ok for every other input; no
\* other error is returned.
C1_Validation ==
    ret.op = "new" =>
        /\ BadArgs(ret.mean, ret.std_dev) <=> ret.val = Err(BadParams)
        /\ ~BadArgs(ret.mean, ret.std_dev) <=> ret.val.tag = "Ok"

\* LogNormal::new(-inf, +inf) has returned Ok.
C1_Witness ==
    /\ ret.op = "new"
    /\ ret.who = "LogNormal"
    /\ ret.mean = NInf
    /\ ret.std_dev = PInf
    /\ ret.val.tag = "Ok"

\* C2: for every non-NaN mean and every sigma > 0, Normal::new(mean, sigma)
\* succeeds, and mean() and std_dev() of the object return the arguments the
\* constructor was given.
C2_RoundTrip ==
    /\ (ret.op = "new" /\ ret.who = "Normal" /\ ret.mean # NaN /\ Positive(ret.std_dev))
          => ret.val.tag = "Ok"
    /\ (ret.op = "mean" /\ ret.who = "Normal") => ret.val = F64(given["Normal"].mean)
    /\ (ret.op = "std_dev" /\ ret.who = "Normal") => ret.val = F64(given["Normal"].std_dev)

\* std_dev() has returned the 0.5 that Normal::new(+inf, 0.5) was given.
C2_Witness ==
    /\ ret.op = "std_dev"
    /\ ret.who = "Normal"
    /\ given["Normal"] = [mean |-> PInf, std_dev |-> Half]
    /\ ret.val = F64(Half)

ValidParams(self) == self.mu # NaN /\ self.sigma # NaN /\ Positive(self.sigma)

\* C3: every Normal and LogNormal that exists has sigma > 0 and neither mu nor
\* sigma NaN, in every state construction, sample, the statistics and the
\* densities lead to.
C3_Invariant == \A d \in Dists : Self(d) # None => ValidParams(Self(d))

\* Both objects exist and a sample call on the LogNormal has returned.
C3_Witness ==
    /\ normal # None
    /\ lognormal # None
    /\ ret.op = "sample"
    /\ ret.who = "LogNormal"

\* C4: the pair just drawn is accepted exactly when the radius r computed from
\* it satisfies 0 < r < 1.
C4_AcceptIffInUnit ==
    (call # Idle /\ call.pc = "loop") =>
        (call.tuple[3] <=> (call.r.k = "num" /\ 0 < call.r.v /\ call.r.v < Scale))

\* C5: the radius computed from the pair just drawn is v1 * v1 + v2 * v2.
C5_MarsagliaRadius ==
    (call # Idle /\ call.pc = "loop") =>
        LET v1 == polar_v(call.a)
            v2 == polar_v(call.b)
        IN  call.r = Add(Mul(v1, v1), Mul(v2, v2))

\* C8: every value LogNormal::sample returns is >= 0 and not NaN; stated here
\* for the LogNormals with finite mu and sigma.
C8_SampleNonNegative ==
    (ret.op = "sample" /\ ret.who = "LogNormal"
        /\ lognormal.mu.k = "num" /\ lognormal.sigma.k = "num")
        => NonNegative(ret.val.val)

\* C9: for x < 0, -infinity included, LogNormal's pdf(x) is 0, its cdf(x) is
\* Ok(0) and its ln_pdf(x) is -infinity.
C9_NegativeX ==
    (ret.op \in Unary /\ ret.who = "LogNormal" /\ Negative(ret.x)) =>
        /\ ret.op = "pdf" => ret.val = F64(Zero)
        /\ ret.op = "cdf" => ret.val = Ok(Zero)
        /\ ret.op = "ln_pdf" => ret.val = F64(NInf)

\* LogNormal's cdf(-inf) has returned.
C9_Witness == ret.op = "cdf" /\ ret.who = "LogNormal" /\ ret.x = NInf

\* C10: cdf returns Ok for every x and median returns Some, for both
\* distributions.
C10_TotalResults ==
    /\ ret.op = "cdf" => ret.val.tag = "Ok"
    /\ ret.op = "median" => ret.val.tag = "Some"

\* Normal's cdf(NaN) has returned Ok(NaN).
C10_Witness ==
    /\ ret.op = "cdf"
    /\ ret.who = "Normal"
    /\ ret.x = NaN
    /\ ret.val = Ok(NaN)

\* The sample call of distribution d is in progress.
InCall(d) == call # Idle /\ call.who = d

\* The pair drawn last in the call in progress was accepted.
Accepted == call # Idle /\ call.pc = "loop" /\ call.tuple[3]

\* The source does not forever yield only pairs that are rejected.
FairSource == []<>(call = Idle \/ Accepted)

\* C6: against a fair source every sample call, of the Normal and of the
\* LogNormal, eventually returns, and the step that follows an accepted pair
\* is the return.
C6_SampleReturns ==
    /\ FairSource =>
          \A d \in Dists : InCall(d) ~> (call = Idle /\ ret.op = "sample" /\ ret.who = d)
    /\ [][Accepted => (call' = Idle /\ ret'.op = "sample")]_vars

\* A sample call has returned after at least one rejected pair.
C6_Witness == ret.op = "sample" /\ ret.pairs >= 2

\* C7: on the same mu and sigma and the same sequence of draws, the k-th call
\* of LogNormal::sample returns exp(y) for the y the k-th call of Normal::sample
\* returns, and both consume the same draws.
C7_ExpOfNormal ==
    (normal.mu = lognormal.mu /\ normal.sigma = lognormal.sigma) =>
        \A k \in 1..Min(Len(samples["Normal"]), Len(samples["LogNormal"])) :
            LET y == samples["Normal"][k]
                z == samples["LogNormal"][k]
            IN  /\ z.val = Exp(y.val)
                /\ z.from = y.from
                /\ z.to = y.to

\* Both first calls have returned after one rejected pair, with a finite y.
C7_Witness ==
    /\ Len(samples["Normal"]) >= 1
    /\ Len(samples["LogNormal"]) >= 1
    /\ samples["Normal"][1].pairs = 2
    /\ samples["Normal"][1].val.k = "num"
    /\ samples["LogNormal"][1].val.k = "num"

\* The absolute values of the entries of v.
AbsValues(v) == {Abs(v[i]) : i \in 1..Len(v)}

HasNaN(v) == \E i \in 1..Len(v) : is_nan(v[i])

\* The minimum and the maximum of the absolute values of a vector without NaN.
LeastAbs(v) == CHOOSE x \in AbsValues(v) : \A y \in AbsValues(v) : Le(x, y)

GreatestAbs(v) == CHOOSE x \in AbsValues(v) : \A y \in AbsValues(v) : Ge(x, y)

IterStats == {"abs_min", "abs_max"}

\* C13: abs_min and abs_max return NaN when the sequence they are called on is
\* empty or has a NaN entry at any position, the first and the last included;
\* otherwise they return the minimum and the maximum of the absolute values
\* of all its entries.
C13_AbsMinMax ==
    iret.op \in IterStats =>
        IF iret.seen = <<>> \/ HasNaN(iret.seen)
        THEN iret.val = NaN
        ELSE /\ iret.op = "abs_min" => iret.val = LeastAbs(iret.seen)
             /\ iret.op = "abs_max" => iret.val = GreatestAbs(iret.seen)

\* abs_min has returned NaN for three entries of which only the first is NaN.
C13_Witness ==
    /\ iret.op = "abs_min"
    /\ Len(iret.seen) = 3
    /\ is_nan(iret.seen[1])
    /\ ~is_nan(iret.seen[2])
    /\ ~is_nan(iret.seen[3])
    /\ iret.val = NaN

\* The entries of the vector left once the caller has taken n of them.
Rest(n) == SubSeq(data, n + 1, Len(data))

\* C19: once abs_min or abs_max has returned the iterator is exhausted, a
\* second call of either on the same iterator returns NaN whatever the data,
\* and the first call on a partly consumed iterator returns the statistic of
\* the entries not yet taken.
C19_Consumes ==
    iret.op \in IterStats =>
        /\ iter = <<>>
        /\ iret.calls >= 2 => iret.val = NaN
        /\ (iret.calls = 1 /\ ~HasNaN(Rest(iret.taken)) /\ Rest(iret.taken) # <<>>) =>
               /\ iret.op = "abs_min" => iret.val = LeastAbs(Rest(iret.taken))
               /\ iret.op = "abs_max" => iret.val = GreatestAbs(Rest(iret.taken))

\* A second call has returned NaN on a vector of three entries without NaN.
C19_Witness ==
    /\ iret.op = "abs_max"
    /\ iret.calls = 2
    /\ Len(data) = 3
    /\ ~HasNaN(data)
    /\ iret.val = NaN

\* C15: for a LogNormal with finite mu and sigma and every x <= 0, x = 0
\* included, pdf(x), ln_pdf(x) and cdf(x) are not NaN: pdf(x) is 0 and
\* ln_pdf(x) is -infinity.
C15_BoundaryNotNaN ==
    (ret.op \in Unary /\ ret.who = "LogNormal" /\ Le(ret.x, Zero)
        /\ lognormal.mu.k = "num" /\ lognormal.sigma.k = "num") =>
        /\ ~is_nan(ret.val.val)
        /\ ret.op = "pdf" => ret.val = F64(Zero)
        /\ ret.op = "ln_pdf" => ret.val = F64(NInf)

\* The Normal has a finite mu and sigma = +infinity.
InfiniteSigma == normal # None /\ normal.mu.k = "num" /\ normal.sigma = PInf

\* C16: Normal::new accepts sigma = +infinity, and for Normal(mu, +infinity)
\* with finite mu and every finite x, variance and entropy are +infinity,
\* pdf(x) is 0, ln_pdf(x) is -infinity, skewness is 0, and mean, median and
\* mode are mu.
C16_InfiniteSigma ==
    /\ (ret.op = "new" /\ ret.who = "Normal" /\ ret.mean.k = "num" /\ ret.std_dev = PInf)
          => ret.val = Ok([mu |-> ret.mean, sigma |-> PInf])
    /\ (ret.op \in Nullary \cup Unary /\ ret.who = "Normal" /\ InfiniteSigma) =>
          /\ ret.op = "variance" => ret.val = F64(PInf)
          /\ ret.op = "entropy" => ret.val = F64(PInf)
          /\ ret.op = "skewness" => ret.val = F64(Zero)
          /\ ret.op = "mean" => ret.val = F64(normal.mu)
          /\ ret.op = "median" => ret.val = Some(normal.mu)
          /\ ret.op = "mode" => ret.val = F64(normal.mu)
          /\ (ret.op = "pdf" /\ ret.x.k = "num") => ret.val = F64(Zero)
          /\ (ret.op = "ln_pdf" /\ ret.x.k = "num") => ret.val = F64(NInf)

\* pdf(1) of Normal(-1, +infinity) has returned 0.
C16_Witness ==
    /\ ret.op = "pdf"
    /\ ret.who = "Normal"
    /\ InfiniteSigma
    /\ normal.mu = Fin(-Scale)
    /\ ret.x = One
    /\ ret.val = F64(Zero)

\* C14: a sample call returns only from a state in which the pair drawn last
\* was accepted, it draws a further pair only when the pair before was
\* rejected, and in a behaviour in which no pair is ever accepted, as against
\* a source that always yields 0.5, no sample call returns: a call in progress
\* stays in progress and no sample value is produced.
C14_NoIterationCap ==
    /\ [][(call # Idle /\ call' = Idle) => (Accepted /\ ret'.op = "sample")]_vars
    /\ [][(call # Idle /\ call.pc = "loop" /\ call' # Idle /\ call' # call)
             => ~call.tuple[3]]_vars
    /\ []~Accepted =>
          /\ [](ret.op # "sample")
          /\ \A d \in Dists : [](InCall(d) => []InCall(d))

\* The source has yielded 0.5 and 0.5, r is 0, and the call is still in its
\* loop after MaxPairs rejected pairs.
C14_Witness ==
    /\ call # Idle
    /\ call.pc = "loop"
    /\ call.pairs = MaxPairs
    /\ call.a = Half
    /\ call.b = Half
    /\ call.r = Zero
    /\ ~call.tuple[3]

\* The last element of a non-empty sequence.
Last(q) == q[Len(q)]

\* C17: a sample call that returns after k rejected pairs, that is after
\* k + 1 pairs, has advanced its source by exactly 2 * (k + 1) values; of
\* each pair a is the value drawn first and b the value drawn second; a call
\* starts where the call before it on the same source stopped, and the source
\* of an idle distribution stands where its last call's accepted pair ended.
C17_WholePairs ==
    /\ \A d \in Dists : \A k \in 1..Len(samples[d]) :
          LET s == samples[d][k]
          IN  /\ s.to - s.from = 2 * s.pairs
              /\ s.from = IF k = 1 THEN 0 ELSE samples[d][k - 1].to
    /\ (call # Idle /\ call.pc = "loop") =>
          /\ rng[call.who] = call.from + 2 * call.pairs
          /\ call.a = tape[rng[call.who] - 1]
          /\ call.b = tape[rng[call.who]]
    /\ \A d \in Dists : ~InCall(d) =>
          rng[d] = IF samples[d] = <<>> THEN 0 ELSE Last(samples[d]).to

\* A call has returned after one rejected pair, having drawn four values of
\* which the last two differ.
C17_Witness ==
    /\ Len(samples["Normal"]) = 1
    /\ samples["Normal"][1].pairs = 2
    /\ samples["Normal"][1].from = 0
    /\ samples["Normal"][1].to = 4
    /\ Len(tape) = 4
    /\ tape[3] # tape[4]
    /\ call = Idle

Statistics == Nullary \cup Unary

\* The distribution of the sample call in progress before or after a step.
Sampling == IF call # Idle THEN call.who ELSE call'.who

\* C11: no step changes the Normal or the LogNormal; a step of a sample call
\* changes the state of no source but the one of the distribution it was
\* called on; a step in which mean, variance, std_dev, entropy, skewness,
\* median, cdf, mode, min, max, pdf or ln_pdf returns changes no source.
C11_Frame ==
    [][/\ normal' = normal
       /\ lognormal' = lognormal
       /\ (call # Idle \/ call' # Idle) =>
              \A d \in Dists \ {Sampling} : rng'[d] = rng[d]
       /\ (ret' # ret /\ ret'.op \in Statistics) =>
              (rng' = rng /\ tape' = tape /\ call' = call)]_vars

\* Both sources have been drawn from, samples of both distributions have
\* returned, and a density of the LogNormal has returned last.
C11_Witness ==
    /\ rng["Normal"] > 0
    /\ rng["LogNormal"] > rng["Normal"]
    /\ samples["Normal"] # <<>>
    /\ samples["LogNormal"] # <<>>
    /\ ret.op = "ln_pdf"
    /\ ret.who = "LogNormal"

\* The values the source of thread t yielded from position m + 1 on.
From(t, m) == SubSeq(src[t], m + 1, Len(src[t]))

\* C12: in every state that an interleaving of the threads' steps reaches,
\* the sample a thread got last is the value sample_unchecked returns when it
\* runs alone on (mu, sigma) and the values that thread's own source yielded
\* from where the call began, with as many values drawn, and the shared
\* Normal and LogNormal are what their constructors returned.
C12_ThreadsAsAlone ==
    /\ normal = Normal_new(given["Normal"].mean, given["Normal"].std_dev).val
    /\ lognormal = LogNormal_new(given["LogNormal"].mean, given["LogNormal"].std_dev).val
    /\ \A t \in Threads :
          tret[t].op = "sample" =>
              LET g     == given[tret[t].who]
                  alone == sample_unchecked(From(t, tret[t].from), g.mean, g.std_dev)
              IN  /\ alone.tag = "Some"
                  /\ tret[t].val = sample_result(tret[t].who, alone.val.v)
                  /\ tret[t].to = tret[t].from + alone.val.drawn

\* Both threads have a sample, taken from the same distribution, while the
\* other thread was in the middle of its own call after a rejected pair.
C12_Witness ==
    /\ tret["t1"].op = "sample"
    /\ tret["t1"].who = "LogNormal"
    /\ tret["t1"].to - tret["t1"].from = 4
    /\ tcall["t2"].pc = "loop"
    /\ tcall["t2"].who = "LogNormal"
    /\ loop_continues(tcall["t2"].tuple)
    /\ src["t1"] # src["t2"]

\* The values thread t's source yielded during the sample call it returned
\* from last.
DrawsOf(t) == SubSeq(src[t], tret[t].from + 1, tret[t].to)

\* q is a prefix of p.
IsPrefix(q, p) == Len(q) <= Len(p) /\ SubSeq(p, 1, Len(q)) = q

\* C18: two sample calls on the same (mu, sigma) whose sources yield the same
\* values return the same value and draw the same number of values, wherever
\* in its source each call began; and the value a call returns is mean +
\* std_dev times the first deviate of the pair it drew last, so that nothing
\* left by an earlier call enters it.
C18_Deterministic ==
    /\ \A s, t \in Threads :
          (/\ tret[s].op = "sample"
           /\ tret[t].op = "sample"
           /\ tret[s].who = tret[t].who
           /\ IsPrefix(DrawsOf(s), From(t, tret[t].from))) =>
              /\ tret[s].val = tret[t].val
              /\ tret[s].to - tret[s].from = tret[t].to - tret[t].from
    /\ \A t \in Threads :
          tret[t].op = "sample" =>
              LET g == given[tret[t].who]
                  a == src[t][tret[t].to - 1]
                  b == src[t][tret[t].to]
              IN  tret[t].val = sample_result(tret[t].who,
                                    Add(g.mean, Mul(g.std_dev, polar_transform(a, b)[1])))

\* Thread t1's second call and thread t2's first call drew the same pair and
\* returned the same finite value, after different first calls.
C18_Witness ==
    /\ tret["t1"].op = "sample"
    /\ tret["t2"].op = "sample"
    /\ tret["t1"].who = tret["t2"].who
    /\ tret["t1"].from = 2
    /\ tret["t2"].from = 0
    /\ DrawsOf("t1") = DrawsOf("t2")
    /\ tret["t1"].val = tret["t2"].val
    /\ tret["t1"].val.k = "num"
    /\ tret["t1"].val # given[tret["t1"].who].mean

====
